---- MODULE Spec2Model ----
(***************************************************************************)
(* Hit-rate evaluation of an embedding provider (evaluate.ipynb).          *)
(*                                                                         *)
(* A dataset is the triple (corpus, queries, relevant_docs) read from a    *)
(* JSON file.  evaluate(dataset, embed_model, top_k) indexes the corpus,   *)
(* retrieves the top_k nearest documents of every query and records        *)
(* whether the first relevant document of the query is among them.  The    *)
(* notebook then puts the records in a data frame and takes the mean of    *)
(* the is_hit column.                                                      *)
(*                                                                         *)
(* The embedding and the vector index are library code.  What the model    *)
(* keeps of a provider is the order in which it ranks the documents of the *)
(* corpus for each query (most similar first); every such order is a       *)
(* possible provider.  Texts are not modelled apart from that order.       *)
(*                                                                         *)
(* The notebook calls evaluate once per provider, one cell after another;  *)
(* `prev` keeps the call before the current one, so that two calls on the  *)
(* same dataset can be compared.  An exception ends the run.               *)
(***************************************************************************)
EXTENDS Integers, Sequences, FiniteSets

\* ---------------------------------------------------------------- bounds

\* Identifiers the datasets draw their keys from.
DocIds == {"d1", "d2"}
QueryIds == {"q1", "q2"}

\* Longest relevant_docs[query_id] sequence.
MaxRel == 2
\* The number of queries of the large training dataset: enough for 67
\* batches in an epoch.
TrainSize == 661
\* Largest top_k passed explicitly (the default is also tried).
MaxTopK == 2

\* top_k=5 in the signature of evaluate.
DefaultTopK == 5

\* BATCH_SIZE, EPOCHS and evaluation_steps of the fine-tuning notebook.
BATCH_SIZE == 10
EPOCHS == 2
EVALUATION_STEPS == 50

\* The texts of documents and queries.
Texts == {"ta", "tb"}

\* ---------------------------------------------------------------- helpers

Min(a, b) == IF a <= b THEN a ELSE b

Range(s) == {s[n] : n \in 1..Len(s)}

\* Sequences over S without repetition, of length n.
DistinctSeqs(S, n) == {s \in [1..n -> S] : \A a, b \in 1..n : a # b => s[a] # s[b]}

\* All orders of the set S.
Perms(S) == DistinctSeqs(S, Cardinality(S))

\* Sequences over S of length at most n.
SeqsUpTo(S, n) == UNION {[1..m -> S] : m \in 0..n}

\* ---------------------------------------------------------------- datasets

\* json.load of a dataset file: corpus is the set of keys of the corpus
\* mapping, queries the keys of the queries mapping in iteration order,
\* relevant_docs a mapping from (some) query ids to sequences of doc ids.
Datasets ==
    {[corpus |-> c, queries |-> q, relevant_docs |-> r] :
        c \in SUBSET DocIds,
        q \in UNION {DistinctSeqs(QueryIds, n) : n \in 0..Cardinality(QueryIds)},
        r \in UNION {[K -> SeqsUpTo(DocIds, MaxRel)] : K \in SUBSET QueryIds}}

\* A dataset is kept only if relevant_docs has no key outside queries
\* (such keys are never read).
LoadableDatasets ==
    {ds \in Datasets : DOMAIN ds.relevant_docs \subseteq Range(ds.queries)}

\* Every query has ground truth.
WellFormed(ds) ==
    \A n \in 1..Len(ds.queries) :
        /\ ds.queries[n] \in DOMAIN ds.relevant_docs
        /\ Len(ds.relevant_docs[ds.queries[n]]) > 0

\* The providers, as far as a dataset can tell them apart: for every query
\* an order of the corpus documents, most similar first.
Providers(ds) == [Range(ds.queries) -> Perms(ds.corpus)]

\* The ways evaluate is called: top_k left out, or passed as 1..MaxTopK.
CallArgs == {<<>>} \cup {<<k>> : k \in 1..MaxTopK}

\* def evaluate(dataset, embed_model, top_k=5, ...)
TopKOf(args) == IF Len(args) = 0 THEN DefaultTopK ELSE args[1]

NoResult == <<"no result">>
NoRate == [num |-> 0, den |-> 0]
NoCall == [called |-> FALSE, model |-> <<>>, top_k |-> 0, results |-> <<>>]

VARIABLES
    dataset,       \* val_dataset
    pc,            \* where the notebook is: idle, loop, done, failed
    embed_model,   \* the provider of the call
    args,          \* the top_k argument as passed: <<>> or <<k>>
    top_k,         \* similarity_top_k of the call
    pos,           \* the number of queries the loop has taken
    prev,          \* the results of the call before this one, if any
    index,         \* the keys of the nodes in the VectorStoreIndex
    eval_results,  \* the list built by the loop
    returned,      \* the value evaluate returned, NoResult if none
    error,         \* the exception that ended the call, "" if none
    df,            \* pd.DataFrame(results): "none", or [columns, rows]
    hit_rate,      \* df['is_hit'].mean() as a fraction, or the error
    retrieved_log, \* the queries retriever.retrieve was called for, in order
    dfs,           \* df_ada, df_bge, df_finetuned, as far as they are made
    hit_rates,     \* hit_rate_ada, hit_rate_bge, hit_rate_finetuned, likewise
    df_all,        \* pd.concat of the labelled frames, "none" before
    summary,       \* df_all.groupby('model').mean('is_hit'), <<>> before
    train_dataset, \* train_dataset of the fine-tuning notebook
    examples,      \* the list of training pairs
    ft_pc,         \* where the fine-tuning notebook is
    ft_pos,        \* the number of queries its loop has taken
    ft_error,      \* the exception that ended it, "" if none
    loader,        \* the batches of the DataLoader
    epoch,         \* the number of epochs model.fit has done
    training_steps, \* the training steps done in the current epoch
    ft_eval,       \* the steps argument of the evaluation under way, 0 if none
    has_best,      \* model.fit has a best score
    disk,          \* the artifacts on disk
    io_log,        \* the reads and writes of artifacts, in order
    nb,            \* the cell the evaluation notebook runs next
    nb_error       \* the artifact it failed to find, <<>> if none

evalVars == <<dataset, pc, embed_model, args, top_k, pos, prev, index,
              eval_results, returned, error, df, hit_rate, retrieved_log>>

sumVars == <<dfs, hit_rates, df_all, summary>>

fitVars == <<epoch, training_steps, ft_eval, has_best>>

ftVars == <<train_dataset, examples, ft_pc, ft_pos, ft_error, loader, fitVars>>

fsVars == <<disk, io_log>>

nbVars == <<nb, nb_error>>

\* The variables the evaluate function and its cells leave alone.
besideEval == <<sumVars, ftVars, fsVars, nbVars>>

vars == <<evalVars, sumVars, ftVars, fsVars, nbVars>>

\* ---------------------------------------------------------------- evaluate

\* Python's `x in list`.
In(x, s) == \E n \in 1..Len(s) : s[n] = x

\* The ranking of the indexed documents for one query, most similar first.
Ranked(model, idx, query_id) == SelectSeq(model[query_id], LAMBDA d : d \in idx)

\* Mutant of Retrieve: the whole ranking, similarity_top_k ignored.
RetrieveAll(model, idx, k, query_id) == Ranked(model, idx, query_id)

\* Mutant of Retrieve: a slice that keeps only the k-th ranked node.
RetrieveKth(model, idx, k, query_id) ==
    LET r == Ranked(model, idx, query_id)
    IN  IF Len(r) = 0 THEN <<>> ELSE <<r[Min(k, Len(r))]>>

\* retriever.retrieve(query) followed by the list of node ids: the
\* similarity_top_k best ranked nodes of the index, all of them when the
\* index holds fewer.
Retrieve(model, idx, k, query_id) ==
    SubSeq(Ranked(model, idx, query_id), 1,
           Min(k, Len(Ranked(model, idx, query_id))))

\* What relevant_docs[query_id][0] raises, "" when it raises nothing.
LookupError(ds, query_id) ==
    IF query_id \notin DOMAIN ds.relevant_docs THEN "KeyError"
    ELSE IF Len(ds.relevant_docs[query_id]) = 0 THEN "IndexError"
    ELSE ""

\* Mutant of ExpectedId: the last relevant document instead of the first.
ExpectedIdLast(ds, query_id) ==
    ds.relevant_docs[query_id][Len(ds.relevant_docs[query_id])]

\* expected_id = relevant_docs[query_id][0]
ExpectedId(ds, query_id) == ds.relevant_docs[query_id][1]

\* Mutant of IsHit: a hit whenever anything was retrieved.
IsHitNonEmpty(expected_id, retrieved_ids) == Len(retrieved_ids) > 0

\* Mutant of IsHit: the test negated.
IsHitInverted(expected_id, retrieved_ids) == ~In(expected_id, retrieved_ids)

\* is_hit = expected_id in retrieved_ids
IsHit(expected_id, retrieved_ids) == In(expected_id, retrieved_ids)

\* The dict built by one iteration of the loop.
EvalResult(ds, model, idx, k, query_id) ==
    LET retrieved_ids == Retrieve(model, idx, k, query_id)
        expected_id == ExpectedId(ds, query_id)
    IN  [is_hit |-> IsHit(expected_id, retrieved_ids),
         retrieved |-> retrieved_ids,
         expected |-> expected_id,
         query |-> query_id]

\* Mutant of AppendResult: the new record goes to the front.
AppendResultFront(results, eval_result) == <<eval_result>> \o results

\* Mutant of AppendResult: a miss is not recorded.
AppendResultSkipMiss(results, eval_result) ==
    IF eval_result.is_hit THEN Append(results, eval_result) ELSE results

\* eval_results.append(eval_result)
AppendResult(results, eval_result) == Append(results, eval_result)

\* The query the loop is at: queries.items() in iteration order.
NextQuery == dataset.queries[pos + 1]

\* ---------------------------------------------------------------- data frame

\* pd.DataFrame(list of dicts): the columns are the keys of the dicts, and
\* an empty list gives a frame without columns.
DataFrame(records) ==
    [columns |-> IF Len(records) = 0 THEN {}
                 ELSE {"is_hit", "retrieved", "expected", "query"},
     rows |-> records]

\* Mutant of SumHits: the False values are counted.
RECURSIVE SumMisses(_, _)
SumMisses(rows, n) ==
    IF n = 0 THEN 0
    ELSE SumMisses(rows, n - 1) + (IF rows[n].is_hit THEN 0 ELSE 1)

\* The number of True values among the first n values of the is_hit column.
RECURSIVE SumHits(_, _)
SumHits(rows, n) ==
    IF n = 0 THEN 0
    ELSE SumHits(rows, n - 1) + (IF rows[n].is_hit THEN 1 ELSE 0)

\* Series.mean() of a column of booleans: their sum over their count,
\* kept as the fraction num/den.
Mean(rows) == [num |-> SumHits(rows, Len(rows)), den |-> Len(rows)]

\* ---------------------------------------------------------------- actions

\* The datasets of a notebook that is not run: no documents, no queries.
NoTrainDataset == [corpus |-> <<>>, queries |-> <<>>, relevant_docs |-> <<>>]
NoValDataset == [corpus |-> {}, queries |-> <<>>, relevant_docs |-> <<>>]

\* The fine-tuning notebook before its loop.
FtStart ==
    /\ examples = <<>>
    /\ ft_pc = "pairs"
    /\ ft_pos = 0
    /\ ft_error = ""
    /\ loader = <<>>
    /\ epoch = 0
    /\ training_steps = 0
    /\ ft_eval = 0
    /\ has_best = FALSE

\* A checkout without artifacts.
FsStart ==
    /\ disk = {}
    /\ io_log = <<>>

\* The evaluation notebook before its first cell.
NbStart ==
    /\ nb = 1
    /\ nb_error = <<>>

Init ==
    /\ dataset \in LoadableDatasets
    /\ pc = "idle"
    /\ embed_model = <<>>
    /\ args = <<>>
    /\ top_k = DefaultTopK
    /\ pos = 0
    /\ prev = NoCall
    /\ index = {}
    /\ eval_results = <<>>
    /\ returned = NoResult
    /\ error = ""
    /\ df = "none"
    /\ hit_rate = NoRate
    /\ retrieved_log = <<>>
    /\ dfs = <<>>
    /\ hit_rates = <<>>
    /\ df_all = "none"
    /\ summary = <<>>
    /\ train_dataset = NoTrainDataset
    /\ FtStart
    /\ FsStart
    /\ NbStart

\* Mutant of CallOn: the dataset is validated before anything is indexed.
CallOnValidated(ds, model, a) ==
    /\ pc \in {"idle", "aggregated"}
    /\ prev' = IF pc = "idle" THEN NoCall
               ELSE [called |-> TRUE, model |-> embed_model, top_k |-> top_k,
                     results |-> returned]
    /\ dataset' = ds
    /\ embed_model' = model
    /\ args' = a
    /\ top_k' = TopKOf(a)
    /\ pos' = 0
    /\ index' = IF WellFormed(ds) THEN ds.corpus ELSE {}
    /\ eval_results' = <<>>
    /\ returned' = NoResult
    /\ error' = IF WellFormed(ds) THEN "" ELSE "KeyError"
    /\ df' = "none"
    /\ hit_rate' = NoRate
    /\ retrieved_log' = <<>>
    /\ pc' = IF WellFormed(ds) THEN "loop" ELSE "failed"

\* Mutant of CallOn: eval_results is a list that outlives the call.
CallOnKeepResults(ds, model, a) ==
    /\ pc \in {"idle", "aggregated"}
    /\ prev' = IF pc = "idle" THEN NoCall
               ELSE [called |-> TRUE, model |-> embed_model, top_k |-> top_k,
                     results |-> returned]
    /\ dataset' = ds
    /\ embed_model' = model
    /\ args' = a
    /\ top_k' = TopKOf(a)
    /\ pos' = 0
    /\ index' = ds.corpus
    /\ returned' = NoResult
    /\ error' = ""
    /\ df' = "none"
    /\ hit_rate' = NoRate
    /\ retrieved_log' = <<>>
    /\ pc' = "loop"
    /\ UNCHANGED eval_results

\* Mutant of CallOn: the index of the first call is kept for later calls.
CallOnCachedIndex(ds, model, a) ==
    /\ pc \in {"idle", "aggregated"}
    /\ prev' = IF pc = "idle" THEN NoCall
               ELSE [called |-> TRUE, model |-> embed_model, top_k |-> top_k,
                     results |-> returned]
    /\ dataset' = ds
    /\ embed_model' = model
    /\ args' = a
    /\ top_k' = TopKOf(a)
    /\ pos' = 0
    /\ index' = IF pc = "idle" THEN ds.corpus ELSE index
    /\ eval_results' = <<>>
    /\ returned' = NoResult
    /\ error' = ""
    /\ df' = "none"
    /\ hit_rate' = NoRate
    /\ retrieved_log' = <<>>
    /\ pc' = "loop"

\* evaluate(ds, embed_model[, top_k]) up to the loop: the nodes are made
\* from the corpus of ds and indexed, the retriever is set to top_k.
CallOn(ds, model, a) ==
    /\ pc \in {"idle", "aggregated"}
    /\ prev' = IF pc = "idle" THEN NoCall
               ELSE [called |-> TRUE, model |-> embed_model, top_k |-> top_k,
                     results |-> returned]
    /\ dataset' = ds
    /\ embed_model' = model
    /\ args' = a
    /\ top_k' = TopKOf(a)
    /\ pos' = 0
    /\ index' = ds.corpus
    /\ eval_results' = <<>>
    /\ returned' = NoResult
    /\ error' = ""
    /\ df' = "none"
    /\ hit_rate' = NoRate
    /\ retrieved_log' = <<>>
    /\ pc' = "loop"

\* evaluate(val_dataset, embed_model[, top_k]), as the notebook calls it.
Call(model, a) == CallOn(dataset, model, a)

\* One iteration of the loop that finds its ground truth.
Iterate ==
    /\ pc = "loop"
    /\ pos < Len(dataset.queries)
    /\ LookupError(dataset, NextQuery) = ""
    /\ pos' = pos + 1
    /\ retrieved_log' = Append(retrieved_log, NextQuery)
    /\ eval_results' = AppendResult(eval_results,
           EvalResult(dataset, embed_model, index, top_k, NextQuery))
    /\ UNCHANGED <<dataset, pc, embed_model, args, top_k, prev, index,
                   returned, error, df, hit_rate>>

\* Mutant of LookupFail: the query without ground truth is skipped.
LookupFailSkip ==
    /\ pc = "loop"
    /\ pos < Len(dataset.queries)
    /\ LookupError(dataset, NextQuery) # ""
    /\ pos' = pos + 1
    /\ retrieved_log' = Append(retrieved_log, NextQuery)
    /\ UNCHANGED <<dataset, pc, embed_model, args, top_k, prev, index,
                   eval_results, returned, error, df, hit_rate>>

\* One iteration whose relevant_docs[query_id][0] raises, after the
\* retrieval for the query: the exception leaves evaluate, which returns
\* nothing.
LookupFail ==
    /\ pc = "loop"
    /\ pos < Len(dataset.queries)
    /\ LookupError(dataset, NextQuery) # ""
    /\ retrieved_log' = Append(retrieved_log, NextQuery)
    /\ error' = LookupError(dataset, NextQuery)
    /\ pc' = "failed"
    /\ UNCHANGED <<dataset, embed_model, args, top_k, pos, prev, index,
                   eval_results, returned, df, hit_rate>>

\* return eval_results
Return ==
    /\ pc = "loop"
    /\ pos = Len(dataset.queries)
    /\ returned' = eval_results
    /\ pc' = "done"
    /\ UNCHANGED <<dataset, embed_model, args, top_k, pos, prev, index,
                   eval_results, error, df, hit_rate,
                   retrieved_log>>

\* df = pd.DataFrame(results)
Frame ==
    /\ pc = "done"
    /\ df' = DataFrame(returned)
    /\ pc' = "framed"
    /\ UNCHANGED <<dataset, embed_model, args, top_k, pos, prev, index,
                   eval_results, returned, error, hit_rate,
                   retrieved_log>>

\* hit_rate = df['is_hit'].mean()
Aggregate ==
    /\ pc = "framed"
    /\ "is_hit" \in df.columns
    /\ hit_rate' = Mean(df.rows)
    /\ pc' = "aggregated"
    /\ UNCHANGED <<dataset, embed_model, args, top_k, pos, prev, index,
                   eval_results, returned, error, df,
                   retrieved_log>>

\* df['is_hit'] on a frame without that column raises KeyError.
AggregateFail ==
    /\ pc = "framed"
    /\ "is_hit" \notin df.columns
    /\ error' = "KeyError"
    /\ pc' = "mean_failed"
    /\ UNCHANGED <<dataset, embed_model, args, top_k, pos, prev, index,
                   eval_results, returned, df, hit_rate,
                   retrieved_log>>

Next ==
    \/ \E model \in Providers(dataset), a \in CallArgs :
           Call(model, a) /\ UNCHANGED besideEval
    \/ Iterate /\ UNCHANGED besideEval
    \/ LookupFail /\ UNCHANGED besideEval
    \/ Return /\ UNCHANGED besideEval
    \/ Frame /\ UNCHANGED besideEval
    \/ Aggregate /\ UNCHANGED besideEval
    \/ AggregateFail /\ UNCHANGED besideEval

Spec == Init /\ [][Next]_vars

\* ------------------------------------------- calls on several datasets

\* The dataset with another corpus under the same queries and ground truth.
WithCorpus(ds, c) == [ds EXCEPT !.corpus = c]

\* A dataset whose queries have at most one relevant document each.
SingleRelevant(ds) ==
    \A query_id \in DOMAIN ds.relevant_docs : Len(ds.relevant_docs[query_id]) <= 1

InitCalls ==
    /\ Init
    /\ SingleRelevant(dataset)

\* evaluate(other_dataset, embed_model[, top_k]): the dataset is an
\* argument, so a later call may bring another corpus.
CallOther ==
    \E c \in SUBSET DocIds :
        \E model \in Providers(WithCorpus(dataset, c)), a \in CallArgs :
            CallOn(WithCorpus(dataset, c), model, a)

NextCalls ==
    \/ CallOther /\ UNCHANGED besideEval
    \/ Iterate /\ UNCHANGED besideEval
    \/ LookupFail /\ UNCHANGED besideEval
    \/ Return /\ UNCHANGED besideEval
    \/ Frame /\ UNCHANGED besideEval
    \/ Aggregate /\ UNCHANGED besideEval
    \/ AggregateFail /\ UNCHANGED besideEval

SpecCalls == InitCalls /\ [][NextCalls]_vars

\* ------------------------------------------------- summary of the runs

\* The labels the notebook gives the frames, in the order of the runs.
Labels == <<"ada", "bge", "fine_tuned">>

\* Mutant of SetModel: every frame gets the label of the first run.
SetModelFirst(frame, label) ==
    [columns |-> frame.columns \cup {"model"},
     rows |-> [n \in 1..Len(frame.rows) |->
                  [is_hit |-> frame.rows[n].is_hit,
                   retrieved |-> frame.rows[n].retrieved,
                   expected |-> frame.rows[n].expected,
                   query |-> frame.rows[n].query,
                   model |-> Labels[1]]]]

\* frame['model'] = label: a new column with the label in every row.
SetModel(frame, label) ==
    [columns |-> frame.columns \cup {"model"},
     rows |-> [n \in 1..Len(frame.rows) |->
                  [is_hit |-> frame.rows[n].is_hit,
                   retrieved |-> frame.rows[n].retrieved,
                   expected |-> frame.rows[n].expected,
                   query |-> frame.rows[n].query,
                   model |-> label]]]

\* pd.concat(frames): the rows of the frames one after another, under the
\* union of their columns.
RECURSIVE Concat(_, _)
Concat(frames, n) ==
    IF n = 0 THEN [columns |-> {}, rows |-> <<>>]
    ELSE LET head == Concat(frames, n - 1)
         IN  [columns |-> head.columns \cup frames[n].columns,
              rows |-> head.rows \o frames[n].rows]

\* The rows of a group: those with the label, in their order.
Group(rows, label) == SelectSeq(rows, LAMBDA r : r.model = label)

\* Mutant of GroupByMean: every group gets the mean over all rows.
GroupByMeanOverAll(frame) ==
    [label \in {frame.rows[n].model : n \in 1..Len(frame.rows)} |->
        Mean(frame.rows)]

\* frame.groupby('model').mean('is_hit'): one row per label that occurs,
\* holding the mean of is_hit, the one numeric column, over the rows of
\* that label.
GroupByMean(frame) ==
    [label \in {frame.rows[n].model : n \in 1..Len(frame.rows)} |->
        Mean(Group(frame.rows, label))]

\* The runs of the notebook: one evaluate per provider.
CallRun ==
    /\ Len(dfs) < Len(Labels)
    /\ \E model \in Providers(dataset), a \in CallArgs : Call(model, a)
    /\ UNCHANGED besideEval

\* hit_rate_x = df_x['is_hit'].mean(): the frame and its hit rate are kept
\* under the names of the run.
AggregateRun ==
    /\ Aggregate
    /\ dfs' = Append(dfs, df)
    /\ hit_rates' = Append(hit_rates, hit_rate')
    /\ UNCHANGED <<df_all, summary>>

\* df_ada['model'] = 'ada'; df_bge['model'] = 'bge';
\* df_finetuned['model'] = 'fine_tuned'
Label ==
    /\ pc = "aggregated"
    /\ Len(dfs) = Len(Labels)
    /\ dfs' = [n \in 1..Len(dfs) |-> SetModel(dfs[n], Labels[n])]
    /\ pc' = "labelled"
    /\ UNCHANGED <<dataset, embed_model, args, top_k, pos, prev, index,
                   eval_results, returned, error, df, hit_rate,
                   retrieved_log, hit_rates, df_all, summary>>

\* df_all = pd.concat([df_ada, df_bge, df_finetuned]);
\* df_all.groupby('model').mean('is_hit')
Summarise ==
    /\ pc = "labelled"
    /\ df_all' = Concat(dfs, Len(dfs))
    /\ summary' = GroupByMean(df_all')
    /\ pc' = "summarised"
    /\ UNCHANGED <<dataset, embed_model, args, top_k, pos, prev, index,
                   eval_results, returned, error, df, hit_rate,
                   retrieved_log, dfs, hit_rates>>

NextSummary ==
    \/ CallRun
    \/ Iterate /\ UNCHANGED besideEval
    \/ LookupFail /\ UNCHANGED besideEval
    \/ Return /\ UNCHANGED besideEval
    \/ Frame /\ UNCHANGED besideEval
    \/ AggregateRun /\ UNCHANGED <<ftVars, fsVars, nbVars>>
    \/ AggregateFail /\ UNCHANGED besideEval
    \/ Label /\ UNCHANGED <<ftVars, fsVars, nbVars>>
    \/ Summarise /\ UNCHANGED <<ftVars, fsVars, nbVars>>

SpecSummary == InitCalls /\ [][NextSummary]_vars

\* ---------------------------------------------------------- fine-tuning

\* json.load of the training dataset, with the texts: corpus maps document
\* ids to texts, queries is the sequence of (query id, query text) items
\* in iteration order, relevant_docs maps (some) query ids to sequences of
\* document ids.
TrainDatasets ==
    {ds \in
        {[corpus |-> c, queries |-> q, relevant_docs |-> r] :
            c \in UNION {[D -> Texts] : D \in SUBSET DocIds},
            q \in SeqsUpTo(QueryIds \X Texts, Cardinality(QueryIds)),
            r \in UNION {[K -> SeqsUpTo(DocIds, MaxRel)] : K \in SUBSET QueryIds}} :
        /\ \A a, b \in 1..Len(ds.queries) :
               a # b => ds.queries[a][1] # ds.queries[b][1]
        /\ DOMAIN ds.relevant_docs \subseteq
               {ds.queries[n][1] : n \in 1..Len(ds.queries)}}

\* The (query_id, query) item the loop takes next.
NextItem == train_dataset.queries[ft_pos + 1]

\* node_id = relevant_docs[query_id][0]
NodeId(ds, query_id) == ds.relevant_docs[query_id][1]

\* The exception of relevant_docs[query_id][0] or of corpus[node_id],
\* "" if there is none.
PairError(ds, query_id) ==
    IF query_id \notin DOMAIN ds.relevant_docs THEN "KeyError"
    ELSE IF Len(ds.relevant_docs[query_id]) = 0 THEN "IndexError"
    ELSE IF NodeId(ds, query_id) \notin DOMAIN ds.corpus THEN "KeyError"
    ELSE ""

\* InputExample(texts=[query, text])
InputExample(query, text) == <<query, text>>

\* Mutant of Example: the text of the document comes first.
ExampleSwapped(ds, item) ==
    InputExample(ds.corpus[NodeId(ds, item[1])], item[2])

\* The training pair of one (query_id, query) item.
Example(ds, item) ==
    InputExample(item[2], ds.corpus[NodeId(ds, item[1])])

\* DataLoader(examples, batch_size): the examples in order, in batches of
\* batch_size, the last one shorter if need be.
RECURSIVE Batches(_, _)
Batches(s, batch_size) ==
    IF Len(s) = 0 THEN <<>>
    ELSE LET n == Min(batch_size, Len(s))
         IN  <<SubSeq(s, 1, n)>> \o Batches(SubSeq(s, n + 1, Len(s)), batch_size)

\* A training dataset large enough for an evaluation in the middle of an
\* epoch: TrainSize queries, numbered, each with one relevant document.
LargeTrainDataset ==
    [corpus |-> [d \in DocIds |-> "ta"],
     queries |-> [n \in 1..TrainSize |-> <<n, "tb">>],
     relevant_docs |-> [n \in 1..TrainSize |-> <<"d1">>]]

\* The file InformationRetrievalEvaluator(..., name=name) writes under
\* output_path: Information-Retrieval_evaluation_<name>_results.csv,
\* without the underscore for the empty name.
MetricsFile(output_path, name) ==
    <<output_path, "Information-Retrieval_evaluation", name, "_results.csv">>

\* The directory model.fit is given as output_path, and its eval
\* directory.
ModelDir == <<"exp_finetune">>
EvalDir == <<"exp_finetune", "eval">>

\* What a saved model holds in its directory: the files of the
\* transformer, which a load needs, and modules.json.
TransformerFiles(model_name) ==
    <<model_name, "config.json", "pytorch_model.bin", "tokenizer_config.json">>
ModulesFile(model_name) == <<model_name, "modules.json">>

\* One iteration of the loop over queries.items() that builds its pair.
BuildPair ==
    /\ ft_pc = "pairs"
    /\ ft_pos < Len(train_dataset.queries)
    /\ PairError(train_dataset, NextItem[1]) = ""
    /\ examples' = Append(examples, Example(train_dataset, NextItem))
    /\ ft_pos' = ft_pos + 1
    /\ UNCHANGED <<train_dataset, ft_pc, ft_error, loader, fitVars, fsVars>>

\* Mutant of PairFail: the query is left out and the loop goes on.
PairFailSkip ==
    /\ ft_pc = "pairs"
    /\ ft_pos < Len(train_dataset.queries)
    /\ PairError(train_dataset, NextItem[1]) # ""
    /\ ft_pos' = ft_pos + 1
    /\ UNCHANGED <<train_dataset, examples, ft_pc, ft_error, loader, fitVars,
                   fsVars>>

\* One iteration whose relevant_docs[query_id][0] or corpus[node_id]
\* raises: the cell ends with the exception.
PairFail ==
    /\ ft_pc = "pairs"
    /\ ft_pos < Len(train_dataset.queries)
    /\ PairError(train_dataset, NextItem[1]) # ""
    /\ ft_error' = PairError(train_dataset, NextItem[1])
    /\ ft_pc' = "failed"
    /\ UNCHANGED <<train_dataset, examples, ft_pos, loader, fitVars, fsVars>>

\* loader = DataLoader(examples, batch_size=BATCH_SIZE)
MakeLoader ==
    /\ ft_pc = "pairs"
    /\ ft_pos = Len(train_dataset.queries)
    /\ loader' = Batches(examples, BATCH_SIZE)
    /\ ft_pc' = "loaded"
    /\ UNCHANGED <<train_dataset, examples, ft_pos, ft_error, fitVars, fsVars>>

\* What model.fit leaves alone.
fitFrame == <<train_dataset, examples, ft_pos, ft_error, loader>>

\* model.fit(train_objectives=[(loader, loss)], epochs=EPOCHS, ...,
\* output_path='exp_finetune', evaluator=evaluator, evaluation_steps=50)
\* is called: there is no best score yet.
FitStart ==
    /\ ft_pc = "loaded"
    /\ ft_pc' = "training"
    /\ epoch' = 0
    /\ training_steps' = 0
    /\ has_best' = FALSE
    /\ UNCHANGED <<fitFrame, ft_eval, fsVars>>

\* One training step, on the next batch of the loader; after every
\* evaluation_steps-th step of an epoch the evaluator is called with the
\* number of steps.
TrainStep ==
    /\ ft_pc = "training"
    /\ epoch < EPOCHS
    /\ training_steps < Len(loader)
    /\ training_steps' = training_steps + 1
    /\ IF (training_steps + 1) % EVALUATION_STEPS = 0
       THEN /\ ft_pc' = "eval"
            /\ ft_eval' = training_steps + 1
       ELSE UNCHANGED <<ft_pc, ft_eval>>
    /\ UNCHANGED <<fitFrame, epoch, has_best, fsVars>>

\* The batches of the epoch are through: the evaluator is called with
\* steps = -1.
EpochEnd ==
    /\ ft_pc = "training"
    /\ epoch < EPOCHS
    /\ training_steps = Len(loader)
    /\ ft_pc' = "eval"
    /\ ft_eval' = -1
    /\ UNCHANGED <<fitFrame, epoch, training_steps, has_best, fsVars>>

\* An evaluation begins: output_path and output_path/eval are made.
EvalMakeDirs ==
    /\ ft_pc = "eval"
    /\ disk' = disk \cup {ModelDir, EvalDir}
    /\ ft_pc' = "scoring"
    /\ UNCHANGED <<fitFrame, fitVars, io_log>>

\* After an evaluation the training goes on: with the next step of the
\* epoch, or, after the evaluation at the end of an epoch, with the next
\* epoch.
Resume ==
    /\ ft_pc' = "training"
    /\ ft_eval' = 0
    /\ IF ft_eval = -1
       THEN /\ epoch' = epoch + 1
            /\ training_steps' = 0
       ELSE UNCHANGED <<epoch, training_steps>>

\* The evaluator scores the model and writes its csv under
\* output_path/eval; if the score is the best so far, as the first one
\* is, the model is saved, else the training goes on.
EvalScore ==
    /\ ft_pc = "scoring"
    /\ disk' = disk \cup {MetricsFile("exp_finetune/eval", "")}
    /\ \E best \in BOOLEAN :
           /\ ~has_best => best
           /\ IF best
              THEN /\ has_best' = TRUE
                   /\ ft_pc' = "saving"
                   /\ UNCHANGED <<epoch, training_steps, ft_eval>>
              ELSE /\ Resume
                   /\ UNCHANGED has_best
    /\ UNCHANGED <<fitFrame, io_log>>

\* model.save(output_path), first part: the transformer is written into
\* the directory: configuration, weights and tokenizer.
SaveTransformer ==
    /\ ft_pc = "saving"
    /\ disk' = disk \cup {TransformerFiles("exp_finetune")}
    /\ io_log' = Append(io_log, [op |-> "write",
                                 key |-> TransformerFiles("exp_finetune"),
                                 by |-> <<"model.fit", "">>])
    /\ ft_pc' = "saving_modules"
    /\ UNCHANGED <<fitFrame, fitVars>>

\* model.save(output_path), last part: modules.json is written, and the
\* training goes on.
SaveModules ==
    /\ ft_pc = "saving_modules"
    /\ disk' = disk \cup {ModulesFile("exp_finetune")}
    /\ Resume
    /\ UNCHANGED <<fitFrame, has_best, io_log>>

\* model.fit returns after EPOCHS epochs.
FitReturn ==
    /\ ft_pc = "training"
    /\ epoch = EPOCHS
    /\ ft_pc' = "trained"
    /\ UNCHANGED <<fitFrame, fitVars, fsVars>>

\* The evaluation functions at rest: nothing called, nothing summarised.
EvalIdle ==
    /\ pc = "idle"
    /\ embed_model = <<>>
    /\ args = <<>>
    /\ top_k = DefaultTopK
    /\ pos = 0
    /\ prev = NoCall
    /\ index = {}
    /\ eval_results = <<>>
    /\ returned = NoResult
    /\ error = ""
    /\ df = "none"
    /\ hit_rate = NoRate
    /\ retrieved_log = <<>>
    /\ dfs = <<>>
    /\ hit_rates = <<>>
    /\ df_all = "none"
    /\ summary = <<>>

InitFinetune ==
    /\ dataset = NoValDataset
    /\ EvalIdle
    /\ \/ train_dataset \in TrainDatasets
       \/ train_dataset = LargeTrainDataset
    /\ FtStart
    /\ FsStart
    /\ NbStart

NextFinetune ==
    \/ BuildPair /\ UNCHANGED <<evalVars, sumVars, nbVars>>
    \/ PairFail /\ UNCHANGED <<evalVars, sumVars, nbVars>>
    \/ MakeLoader /\ UNCHANGED <<evalVars, sumVars, nbVars>>
    \/ FitStart /\ UNCHANGED <<evalVars, sumVars, nbVars>>
    \/ TrainStep /\ UNCHANGED <<evalVars, sumVars, nbVars>>
    \/ EpochEnd /\ UNCHANGED <<evalVars, sumVars, nbVars>>
    \/ EvalMakeDirs /\ UNCHANGED <<evalVars, sumVars, nbVars>>
    \/ EvalScore /\ UNCHANGED <<evalVars, sumVars, nbVars>>
    \/ SaveTransformer /\ UNCHANGED <<evalVars, sumVars, nbVars>>
    \/ SaveModules /\ UNCHANGED <<evalVars, sumVars, nbVars>>
    \/ FitReturn /\ UNCHANGED <<evalVars, sumVars, nbVars>>

SpecFinetune == InitFinetune /\ [][NextFinetune]_vars

\* ------------------------------------------------------------ workflow

\* The model ids that are not artifacts of the workflow: they come from
\* the model hub.
Hub == {"BAAI/bge-small-en"}

\* The directory evaluate_st gives the evaluator as output_path.  No cell
\* makes it.
ResultsDir == <<"results/">>

\* The evaluation notebook, top to bottom, as the steps that reach for a
\* model, a dataset or a file.  An embed_model "local:<name>" is
\* <<"local", name>>; a path is split as MetricsFile splits it.
Steps ==
    << [kind |-> "evaluate", op |-> "load", model |-> <<"openai">>,
        name |-> "", path |-> <<>>],
       [kind |-> "evaluate", op |-> "loop", model |-> <<>>,
        name |-> "", path |-> <<>>],
       [kind |-> "evaluate", op |-> "load", model |-> <<"local", "BAAI/bge-small-en">>,
        name |-> "", path |-> <<>>],
       [kind |-> "evaluate", op |-> "loop", model |-> <<>>,
        name |-> "", path |-> <<>>],
       [kind |-> "evaluate_st", op |-> "load", model |-> <<"BAAI/bge-small-en">>,
        name |-> "bge", path |-> <<>>],
       [kind |-> "evaluate_st", op |-> "write", model |-> <<>>,
        name |-> "bge", path |-> <<>>],
       [kind |-> "evaluate", op |-> "load", model |-> <<"local", "exp_finetune">>,
        name |-> "", path |-> <<>>],
       [kind |-> "evaluate", op |-> "loop", model |-> <<>>,
        name |-> "", path |-> <<>>],
       [kind |-> "evaluate_st", op |-> "load", model |-> <<"exp_finetune">>,
        name |-> "finetuned", path |-> <<>>],
       [kind |-> "evaluate_st", op |-> "write", model |-> <<>>,
        name |-> "finetuned", path |-> <<>>],
       [kind |-> "summary", op |-> "compute", model |-> <<>>,
        name |-> "", path |-> <<>>],
       [kind |-> "read_csv", op |-> "read", model |-> <<>>, name |-> "",
        path |-> <<"results/", "Information-Retrieval_evaluation", "bge",
                   "_results.csv">>],
       [kind |-> "read_csv", op |-> "read", model |-> <<>>, name |-> "",
        path |-> <<"results/", "Information-Retrieval_evaluation", "finetuned",
                   "_results.csv">>] >>

\* The model names a load resolves: the name after "local:" for evaluate,
\* the model_id for evaluate_st, none for OpenAIEmbedding().
ModelNames(step) ==
    IF step.op # "load" THEN <<>>
    ELSE IF step.kind = "evaluate_st" THEN step.model
    ELSE IF step.model[1] = "local" THEN <<step.model[2]>>
    ELSE <<>>

\* What a step needs on disk, in order: the transformer files of a model
\* that is not a hub model, the directory a csv is written into, the file
\* read_csv reads.
Needs(step) ==
    IF step.op = "load"
    THEN [n \in 1..Len(SelectSeq(ModelNames(step), LAMBDA m : m \notin Hub)) |->
             TransformerFiles(SelectSeq(ModelNames(step), LAMBDA m : m \notin Hub)[n])]
    ELSE IF step.op = "write" THEN <<ResultsDir>>
    ELSE IF step.op = "read" THEN <<step.path>>
    ELSE <<>>

\* The artifacts a step reads: what a load or a read_csv needs.
Reads(step) == IF step.op \in {"load", "read"} THEN Needs(step) ELSE <<>>

\* The artifacts a step writes: evaluate_st ends in
\* evaluator(model, output_path='results/').
Writes(step) ==
    IF step.op = "write" THEN <<MetricsFile("results/", step.name)>> ELSE <<>>

\* Mutant of Present: whatever is asked for is found.
PresentAlways(key, d) == TRUE

\* The file or directory is on disk.
Present(key, d) == key \in d

\* The files model.save is writing right now: a load of them at this
\* moment races with the save.
BeingWritten ==
    IF ft_pc = "saving" THEN {TransformerFiles("exp_finetune")} ELSE {}

\* The log entries of a step for the artifacts keys.
Events(op, keys, step) ==
    [n \in 1..Len(keys) |->
        [op |-> op, key |-> keys[n], by |-> <<step.kind, step.name>>]]

\* The exception that ends evaluate, or the cells that frame its results
\* and take the mean, on a dataset: that of the first lookup that fails,
\* else KeyError for df['is_hit'] when there is no record, else "".
RunError(ds) ==
    IF \E n \in 1..Len(ds.queries) : LookupError(ds, ds.queries[n]) # ""
    THEN LookupError(ds, ds.queries[
             CHOOSE n \in 1..Len(ds.queries) :
                 /\ LookupError(ds, ds.queries[n]) # ""
                 /\ \A m \in 1..(n - 1) : LookupError(ds, ds.queries[m]) = ""])
    ELSE IF "is_hit" \notin DataFrame(ds.queries).columns THEN "KeyError"
    ELSE ""

\* A step that finds what it needs and raises nothing: it reads, writes
\* what it writes, and the notebook goes on.
RunStep ==
    /\ nb <= Len(Steps)
    /\ nb_error = <<>>
    /\ \A n \in 1..Len(Needs(Steps[nb])) : Present(Needs(Steps[nb])[n], disk)
    /\ Steps[nb].op = "loop" => RunError(dataset) = ""
    /\ io_log' = io_log \o Events("read", Reads(Steps[nb]), Steps[nb])
                        \o Events("write", Writes(Steps[nb]), Steps[nb])
    /\ disk' = disk \cup Range(Writes(Steps[nb]))
    /\ nb' = nb + 1
    /\ UNCHANGED nb_error

\* A step that needs a file or directory that is not there, or that
\* model.save is writing at this moment: the load, the open or the read
\* raises, and the notebook stops at this step.
StepFail ==
    /\ nb <= Len(Steps)
    /\ nb_error = <<>>
    /\ \E n \in 1..Len(Needs(Steps[nb])) :
           LET keys == Needs(Steps[nb])
           IN  /\ ~Present(keys[n], disk) \/ keys[n] \in BeingWritten
               /\ \A m \in 1..(n - 1) : Present(keys[m], disk)
               /\ io_log' = io_log
                       \o Events("read", SubSeq(Reads(Steps[nb]), 1, n - 1), Steps[nb])
                       \o Events("missing", <<keys[n]>>, Steps[nb])
               /\ nb_error' = keys[n]
    /\ UNCHANGED <<nb, disk>>

\* The loop of evaluate, or the mean after it, raises on the dataset: the
\* notebook stops at this step.
LoopFail ==
    /\ nb <= Len(Steps)
    /\ nb_error = <<>>
    /\ Steps[nb].op = "loop"
    /\ RunError(dataset) # ""
    /\ nb_error' = <<RunError(dataset)>>
    /\ UNCHANGED <<nb, disk, io_log>>

\* The datasets the workflow is run on: at most one query, at most one
\* relevant document; one text.
WorkflowValDatasets ==
    {ds \in LoadableDatasets :
        ds.corpus = DocIds /\ SingleRelevant(ds) /\ Len(ds.queries) <= 1}

WorkflowTrainDatasets ==
    {ds \in TrainDatasets :
        /\ SingleRelevant(ds)
        /\ Len(ds.queries) <= 1
        /\ \A d \in DOMAIN ds.corpus : ds.corpus[d] = "ta"
        /\ \A n \in 1..Len(ds.queries) : ds.queries[n][2] = "ta"}

InitWorkflow ==
    /\ dataset \in WorkflowValDatasets
    /\ EvalIdle
    /\ \/ train_dataset \in WorkflowTrainDatasets
       \/ train_dataset = LargeTrainDataset
    /\ FtStart
    /\ disk \in {{}, {ResultsDir}}
    /\ io_log = <<>>
    /\ NbStart

NextWorkflow ==
    \/ BuildPair /\ UNCHANGED <<evalVars, sumVars, nbVars>>
    \/ PairFail /\ UNCHANGED <<evalVars, sumVars, nbVars>>
    \/ MakeLoader /\ UNCHANGED <<evalVars, sumVars, nbVars>>
    \/ FitStart /\ UNCHANGED <<evalVars, sumVars, nbVars>>
    \/ TrainStep /\ UNCHANGED <<evalVars, sumVars, nbVars>>
    \/ EpochEnd /\ UNCHANGED <<evalVars, sumVars, nbVars>>
    \/ EvalMakeDirs /\ UNCHANGED <<evalVars, sumVars, nbVars>>
    \/ EvalScore /\ UNCHANGED <<evalVars, sumVars, nbVars>>
    \/ SaveTransformer /\ UNCHANGED <<evalVars, sumVars, nbVars>>
    \/ SaveModules /\ UNCHANGED <<evalVars, sumVars, nbVars>>
    \/ FitReturn /\ UNCHANGED <<evalVars, sumVars, nbVars>>
    \/ RunStep /\ UNCHANGED <<evalVars, sumVars, ftVars>>
    \/ StepFail /\ UNCHANGED <<evalVars, sumVars, ftVars>>
    \/ LoopFail /\ UNCHANGED <<evalVars, sumVars, ftVars>>

SpecWorkflow == InitWorkflow /\ [][NextWorkflow]_vars

\* ---------------------------------------------------------------- properties

\* evaluate has returned its list (it is in `returned`).
HasReturned == pc \in {"done", "framed", "aggregated", "mean_failed"}

\* The query has an entry in relevant_docs with at least one document.
HasGroundTruth(ds, query_id) ==
    /\ query_id \in DOMAIN ds.relevant_docs
    /\ Len(ds.relevant_docs[query_id]) > 0

\* The place of x in the sequence s of distinct elements.
Position(s, x) == CHOOSE n \in 1..Len(s) : s[n] = x

\* The number of records that are hits.
HitCount(records) == Cardinality({n \in 1..Len(records) : records[n].is_hit})

\* C1: in every returned record, expected is the first element of
\* relevant_docs[query], is_hit holds exactly when expected occurs at some
\* position of the record's retrieved sequence, and the record is the one
\* the same call computes when relevant_docs[query] is cut to its first
\* element (further elements change nothing).
C1_ExpectedFirstHitIffRetrieved ==
    HasReturned =>
        \A n \in 1..Len(returned) :
            LET r == returned[n]
                rel == dataset.relevant_docs[r.query]
                first_only ==
                    [dataset EXCEPT !.relevant_docs[r.query] = <<rel[1]>>]
            IN  /\ r.expected = rel[1]
                /\ r.is_hit <=>
                       \E p \in 1..Len(r.retrieved) : r.retrieved[p] = r.expected
                /\ r = EvalResult(first_only, embed_model, index, top_k, r.query)

\* C1 witness: a returned record that is a miss although the second
\* relevant document of its query was retrieved.
C1_Witness ==
    /\ HasReturned
    /\ \E n \in 1..Len(returned) :
           LET r == returned[n]
               rel == dataset.relevant_docs[r.query]
           IN  /\ Len(rel) = 2
               /\ rel[2] # rel[1]
               /\ In(rel[2], r.retrieved)
               /\ ~r.is_hit

\* C2: for a well-formed dataset evaluate does not fail, and what it
\* returns has exactly one record per query of the queries mapping: |Q|
\* records, each naming a query of Q, every query of Q named once.
C2_OneRecordPerQuery ==
    WellFormed(dataset) =>
        /\ pc # "failed"
        /\ HasReturned =>
               /\ Len(returned) = Len(dataset.queries)
               /\ \A n \in 1..Len(returned) :
                      returned[n].query \in Range(dataset.queries)
               /\ \A q \in Range(dataset.queries) :
                      Cardinality({n \in 1..Len(returned) :
                                       returned[n].query = q}) = 1

\* C2 witness: two records returned for a dataset of two queries.
C2_Witness ==
    /\ HasReturned
    /\ Len(dataset.queries) = 2
    /\ Len(returned) = 2

\* C2 witness for the empty mapping: an empty list is returned.
C2_WitnessEmpty ==
    /\ HasReturned
    /\ Len(dataset.queries) = 0
    /\ returned = <<>>

\* C3: the loop never gets past a query without ground truth; with such a
\* query in the dataset evaluate cannot reach its return, and the call that
\* failed ended with a lookup error and returned nothing.
C3_MissingGroundTruthFails ==
    /\ \A n \in 1..pos : HasGroundTruth(dataset, dataset.queries[n])
    /\ ~WellFormed(dataset) =>
           /\ ~HasReturned
           /\ returned = NoResult
           /\ pc = "loop" => pos < Len(dataset.queries)
    /\ pc = "failed" =>
           /\ ~HasGroundTruth(dataset, dataset.queries[pos + 1])
           /\ error \in {"KeyError", "IndexError"}
           /\ returned = NoResult

\* C3 witness: the call failed at the second query, whose relevant_docs
\* entry is empty, after a record was computed for the first.
C3_Witness ==
    /\ pc = "failed"
    /\ pos = 1
    /\ Len(eval_results) = 1
    /\ error = "IndexError"

\* C3 witness for the absent key.
C3_WitnessKeyError ==
    /\ pc = "failed"
    /\ error = "KeyError"
    /\ dataset.queries[pos + 1] \notin DOMAIN dataset.relevant_docs

\* C4: two calls of evaluate with the same provider on the dataset, the
\* earlier with top_k = k and the later with top_k = k' (or the other way
\* round): when k <= k', every query that is a hit at k is a hit at k', and
\* the hit rate at k is at most the hit rate at k'.
C4_HitRateMonotoneInTopK ==
    (HasReturned /\ prev.called /\ prev.model = embed_model) =>
        LET lo == IF prev.top_k <= top_k THEN prev.results ELSE returned
            hi == IF prev.top_k <= top_k THEN returned ELSE prev.results
        IN  /\ Len(lo) = Len(hi)
            /\ \A n \in 1..Len(lo) :
                   /\ lo[n].query = hi[n].query
                   /\ lo[n].is_hit => hi[n].is_hit
            /\ HitCount(lo) * Len(hi) <= HitCount(hi) * Len(lo)

\* C4 witness: the same provider called with a larger top_k, and the hit
\* rate went up.
C4_Witness ==
    /\ HasReturned
    /\ prev.called
    /\ prev.model = embed_model
    /\ prev.top_k < top_k
    /\ HitCount(prev.results) < HitCount(returned)

\* C5 as stated: in every returned record the retrieved sequence has
\* length exactly top_k (5 when top_k is not passed), whatever the size of
\* the corpus.
C5_RetrievedLengthIsTopK ==
    HasReturned =>
        /\ Len(args) = 0 => top_k = DefaultTopK
        /\ \A n \in 1..Len(returned) : Len(returned[n].retrieved) = top_k

\* C5 as amended: in every returned record the retrieved sequence has
\* length min(top_k, number of corpus documents), with top_k the argument
\* passed, or 5 when none is passed; it holds distinct corpus keys, so its
\* length is top_k exactly when the corpus has at least top_k documents.
C5_RetrievedLengthIsMinTopKCorpus ==
    HasReturned =>
        /\ top_k = (IF Len(args) = 0 THEN DefaultTopK ELSE args[1])
        /\ \A n \in 1..Len(returned) :
               LET ids == returned[n].retrieved
               IN  /\ Len(ids) = Min(top_k, Cardinality(dataset.corpus))
                   /\ Cardinality(Range(ids)) = Len(ids)
                   /\ (Len(ids) = top_k) <=>
                          (Cardinality(dataset.corpus) >= top_k)

\* C5 witness: top_k = 2 was passed, the corpus has one document, and the
\* record holds one retrieved identifier.
C5_Witness ==
    /\ HasReturned
    /\ args = <<2>>
    /\ Cardinality(dataset.corpus) = 1
    /\ \E n \in 1..Len(returned) : Len(returned[n].retrieved) = 1

\* C5 witness for the default: top_k not passed, the records hold the two
\* documents of the corpus.
C5_WitnessDefault ==
    /\ HasReturned
    /\ args = <<>>
    /\ top_k = DefaultTopK
    /\ \E n \in 1..Len(returned) : Len(returned[n].retrieved) = 2

\* C6: the hit rate taken from a non-empty list of records is (number of
\* records with is_hit) / (number of records), lies in [0, 1], is 1 exactly
\* when every record is a hit and 0 exactly when none is.
C6_HitRateIsFractionOfHits ==
    pc = "aggregated" =>
        /\ Len(returned) > 0
        /\ hit_rate.den = Len(returned)
        /\ hit_rate.num = HitCount(returned)
        /\ 0 <= hit_rate.num /\ hit_rate.num <= hit_rate.den
        /\ (hit_rate.num = hit_rate.den) <=>
               (\A n \in 1..Len(returned) : returned[n].is_hit)
        /\ (hit_rate.num = 0) <=>
               (\A n \in 1..Len(returned) : ~returned[n].is_hit)

\* C6 witness: a hit rate of 1/2, one hit and one miss.
C6_Witness ==
    /\ pc = "aggregated"
    /\ hit_rate = [num |-> 1, den |-> 2]
    /\ returned[1].is_hit
    /\ ~returned[2].is_hit

\* C7: every identifier of a retrieved sequence is a key of the corpus of
\* the call, so a record whose expected identifier is not a key of the
\* corpus is a miss; and such a ground truth does not make evaluate fail:
\* a well-formed dataset gets a record, with is_hit false, for each such
\* query.
C7_GroundTruthOutsideCorpusIsMiss ==
    /\ HasReturned =>
           \A n \in 1..Len(returned) :
               /\ Range(returned[n].retrieved) \subseteq dataset.corpus
               /\ returned[n].expected \notin dataset.corpus =>
                      ~returned[n].is_hit
    /\ WellFormed(dataset) =>
           /\ pc # "failed"
           /\ HasReturned =>
                  \A q \in Range(dataset.queries) :
                      dataset.relevant_docs[q][1] \notin dataset.corpus =>
                          \E n \in 1..Len(returned) :
                              /\ returned[n].query = q
                              /\ ~returned[n].is_hit

\* C7 witness: a returned record whose expected identifier is no key of
\* the corpus, with a document retrieved for it.
C7_Witness ==
    /\ HasReturned
    /\ \E n \in 1..Len(returned) :
           /\ returned[n].expected \notin dataset.corpus
           /\ Len(returned[n].retrieved) > 0
           /\ ~returned[n].is_hit

\* C8: the returned records are in the iteration order of the queries
\* mapping: the n-th record is for the n-th query, so for i < j the query
\* of record i comes before the query of record j.
C8_RecordsInQueryOrder ==
    HasReturned =>
        /\ \A n \in 1..Len(returned) :
               n <= Len(dataset.queries) =>
                   returned[n].query = dataset.queries[n]
        /\ \A i, j \in 1..Len(returned) :
               i < j =>
                   Position(dataset.queries, returned[i].query)
                       < Position(dataset.queries, returned[j].query)

\* C8 witness: the mapping iterates q2 before q1, and so do the records.
C8_Witness ==
    /\ HasReturned
    /\ dataset.queries = <<"q2", "q1">>
    /\ Len(returned) = 2
    /\ returned[1].query = "q2"
    /\ returned[2].query = "q1"

\* For the empty list that evaluate returns for an empty queries mapping
\* no hit rate is ever produced, neither 0 nor a 0/0 (NaN).
NoRateFromEmpty ==
    (HasReturned /\ Len(returned) = 0) =>
        /\ Len(dataset.queries) = 0
        /\ pc # "aggregated"
        /\ hit_rate = NoRate

\* The aggregation of an empty list has ended in a signal that the metric
\* is undefined: the mean was asked of an is_hit column that holds no
\* value, and what was raised is not the lookup failure of a key.
UndefinedMetricSignalled ==
    /\ "is_hit" \in df.columns
    /\ Len(df.rows) = 0
    /\ error \notin {"", "KeyError", "IndexError"}

\* C9: when the mean of the is_hit column is asked of the empty list that
\* evaluate returns for an empty queries mapping, no hit rate (0 or NaN)
\* is produced and the failure is an explicit signal that the metric is
\* undefined.  The code stops earlier, with the KeyError of the column
\* lookup df['is_hit'] on a frame that has no columns.
C9_EmptyAggregateSignalsUndefinedMetric ==
    /\ NoRateFromEmpty
    /\ (pc = "mean_failed" /\ Len(returned) = 0) => UndefinedMetricSignalled

\* C10: with an empty corpus and a non-empty well-formed queries mapping
\* nothing fails: evaluate returns one record per query, each with an
\* empty retrieved sequence and is_hit false, and the hit rate is 0.
C10_EmptyCorpusAllMisses ==
    (dataset.corpus = {} /\ Len(dataset.queries) > 0 /\ WellFormed(dataset)) =>
        /\ pc \notin {"failed", "mean_failed"}
        /\ HasReturned =>
               /\ Len(returned) = Len(dataset.queries)
               /\ \A n \in 1..Len(returned) :
                      /\ returned[n].retrieved = <<>>
                      /\ ~returned[n].is_hit
        /\ pc = "aggregated" =>
               hit_rate = [num |-> 0, den |-> Len(dataset.queries)]

\* C10 witness: two queries over an empty corpus, hit rate 0/2.
C10_Witness ==
    /\ dataset.corpus = {}
    /\ Len(dataset.queries) = 2
    /\ pc = "aggregated"
    /\ hit_rate = [num |-> 0, den |-> 2]

\* The fractions a and b are the same number.
SameRate(a, b) == a.num * b.den = b.num * a.den

\* C11: once the three frames are labelled 'ada', 'bge' and 'fine_tuned',
\* concatenated and grouped, the grouped mean of is_hit has exactly one
\* value for each label, and for each label it is the hit rate computed
\* from the records of that run alone; the rows of the concatenation keep
\* the label of the frame they came from.
C11_GroupedMeanIsRunHitRate ==
    pc = "summarised" =>
        /\ DOMAIN summary = Range(Labels)
        /\ Len(df_all.rows) = Len(dfs[1].rows) + Len(dfs[2].rows) + Len(dfs[3].rows)
        /\ \A n \in 1..Len(Labels) :
               /\ summary[Labels[n]].den = Len(dfs[n].rows)
               /\ summary[Labels[n]].den > 0
               /\ SameRate(summary[Labels[n]], hit_rates[n])
               /\ Len(Group(df_all.rows, Labels[n])) = Len(dfs[n].rows)
               /\ \A m \in 1..Len(dfs[n].rows) :
                      Group(df_all.rows, Labels[n])[m] = dfs[n].rows[m]

\* C11 witness: the three runs have the hit rates 1, 1/2 and 0, and the
\* summary is made.
C11_Witness ==
    /\ pc = "summarised"
    /\ hit_rates[1] = [num |-> 2, den |-> 2]
    /\ hit_rates[2] = [num |-> 1, den |-> 2]
    /\ hit_rates[3] = [num |-> 0, den |-> 2]

\* C12: the fine-tuning loop builds one pair for every query it has taken,
\* in the iteration order of queries, so one pair per query once the loop
\* is through; the pair of a query is its text followed by the text of
\* the first document of its relevant_docs entry, whatever else the entry
\* holds.
C12_OnePairPerQueryFirstRelevant ==
    /\ ft_pc \in {"pairs", "failed"} => Len(examples) = ft_pos
    /\ ft_pc \in {"loaded", "trained"} =>
           Len(examples) = Len(train_dataset.queries)
    /\ \A n \in 1..Len(examples) :
           LET query_id == train_dataset.queries[n][1]
               query == train_dataset.queries[n][2]
           IN  /\ Len(examples[n]) = 2
               /\ examples[n][1] = query
               /\ examples[n][2] =
                      train_dataset.corpus[train_dataset.relevant_docs[query_id][1]]

\* C12 witness: the loop is through two queries with different texts; the
\* first has two relevant documents with different texts, and its pair
\* holds the query text, which is not the text of the first document.
C12_Witness ==
    /\ ft_pc = "loaded"
    /\ Len(examples) = 2
    /\ train_dataset.queries[1][2] # train_dataset.queries[2][2]
    /\ LET rel == train_dataset.relevant_docs[train_dataset.queries[1][1]]
       IN  /\ Len(rel) = 2
           /\ rel[2] \in DOMAIN train_dataset.corpus
           /\ train_dataset.corpus[rel[1]] # train_dataset.corpus[rel[2]]
           /\ examples[1] = <<train_dataset.queries[1][2], train_dataset.corpus[rel[1]]>>
           /\ examples[1][1] # examples[1][2]

\* The records evaluate computes for the first n queries of ds from its
\* arguments alone.
RecordsFrom(ds, model, k, n) ==
    [m \in 1..n |-> EvalResult(ds, model, ds.corpus, k, ds.queries[m])]

\* C13: a call of evaluate leaves corpus, queries and relevant_docs of the
\* dataset as they were, from the call to the end of the call, and carries
\* nothing to a later call: the index of a call is the corpus of that call,
\* and the records a call returns are those its own dataset, provider and
\* top_k give, with retrieved identifiers from its own corpus only.
C13_NoStateAcrossCalls ==
    /\ [][(pc \in {"loop", "done", "framed"}) => (dataset' = dataset)]_vars
    /\ [](pc # "idle" => index = dataset.corpus)
    /\ [](HasReturned =>
            /\ returned = RecordsFrom(dataset, embed_model, top_k,
                                      Len(dataset.queries))
            /\ \A n \in 1..Len(returned) :
                   Range(returned[n].retrieved) \subseteq dataset.corpus)

\* C13 witness: a call has returned a record with retrieved documents
\* after an earlier call, on another corpus, returned a record with a
\* retrieved document that the corpus of this call does not have.
C13_Witness ==
    /\ HasReturned
    /\ prev.called
    /\ \E n \in 1..Len(prev.results) :
           ~(Range(prev.results[n].retrieved) \subseteq dataset.corpus)
    /\ \E n \in 1..Len(returned) : Len(returned[n].retrieved) > 0

\* C14: two calls of evaluate on the dataset with the same provider and
\* the same top_k return the same list of records (queries, expected
\* identifiers, retrieved sequences and hit flags), hence the same hit
\* rate.
C14_SameInputsSameRecords ==
    (HasReturned /\ prev.called /\ prev.model = embed_model
        /\ prev.top_k = top_k) =>
        /\ returned = prev.results
        /\ pc = "aggregated" =>
               /\ hit_rate.num = HitCount(prev.results)
               /\ hit_rate.den = Len(prev.results)

\* C14 witness: the second of two calls with the same provider and top_k
\* has returned a hit and a miss, as the first did.
C14_Witness ==
    /\ pc = "aggregated"
    /\ prev.called
    /\ prev.model = embed_model
    /\ prev.top_k = top_k
    /\ Len(returned) = 2
    /\ HitCount(returned) = 1
    /\ HitCount(prev.results) = 1

\* The step that writes an artifact: model.fit for the files of the
\* model in exp_finetune, evaluate_st with the run name for a metrics
\* file of that run name.
Writer(key) ==
    IF key = TransformerFiles("exp_finetune") THEN <<"model.fit", "">>
    ELSE <<"evaluate_st", key[3]>>

\* The artifact was read at place i of the log.
ReadAt(key, i) ==
    /\ i \in 1..Len(io_log)
    /\ io_log[i].op = "read"
    /\ io_log[i].key = key

\* The artifact was written, by the step that makes it, at place i of the
\* log.
WrittenAt(key, i) ==
    /\ i \in 1..Len(io_log)
    /\ io_log[i] = [op |-> "write", key |-> key, by |-> Writer(key)]

\* C15: every artifact that is read was written before, under the same
\* key, by the step that makes it: the model in exp_finetune by
\* model.fit, the metrics file of a run name by evaluate_st with that
\* name.  The evaluation notebook gets past a step only with what the
\* step needs on disk; a step that asks for what is not there stops the
\* notebook with the missing path, and no step runs after it, whatever is
\* written later.
C15_NoReadBeforeWrite ==
    /\ [](\A i \in 1..Len(io_log) :
            /\ io_log[i].op = "read" =>
                   \E j \in 1..(i - 1) : WrittenAt(io_log[i].key, j)
            /\ io_log[i].op = "missing" => nb_error = io_log[i].key)
    /\ [][(nb' # nb) =>
            (\A n \in 1..Len(Needs(Steps[nb])) : Needs(Steps[nb])[n] \in disk)]_vars
    /\ [][(nb_error # <<>>) => (nb' = nb /\ nb_error' = nb_error)]_vars

\* C15 witness: the evaluation notebook is through its steps, having read
\* the model in exp_finetune and both metrics files, while model.fit,
\* which saved the model after its 50th training step, is still in its
\* first epoch.
C15_Witness ==
    /\ nb = Len(Steps) + 1
    /\ nb_error = <<>>
    /\ epoch = 0
    /\ ft_pc = "training"
    /\ \E i \in 1..Len(io_log) : ReadAt(TransformerFiles("exp_finetune"), i)
    /\ \E i \in 1..Len(io_log) : ReadAt(MetricsFile("results/", "finetuned"), i)

\* C15 witness: evaluate_st loaded the model from exp_finetune, model.fit
\* saved the model again, and then evaluate_st wrote its metrics file.
C15_WitnessSaveBetween ==
    \E i, j, k \in 1..Len(io_log) :
        /\ i < j
        /\ j < k
        /\ ReadAt(TransformerFiles("exp_finetune"), i)
        /\ io_log[i].by = <<"evaluate_st", "finetuned">>
        /\ WrittenAt(TransformerFiles("exp_finetune"), j)
        /\ WrittenAt(MetricsFile("results/", "finetuned"), k)

\* C15 witness: the evaluation notebook asked for the model before
\* model.fit wrote it and stopped; the model is on disk now and the
\* notebook is still where it stopped.
C15_WitnessMissing ==
    /\ nb_error = TransformerFiles("exp_finetune")
    /\ nb = 7
    /\ TransformerFiles("exp_finetune") \in disk
    /\ ft_pc = "trained"

\* The n-th query of the training dataset gives no pair.
BadPair(ds, n) == PairError(ds, ds.queries[n][1]) # ""

\* The place of the first query that gives no pair.
FirstBadPair(ds) ==
    CHOOSE n \in 1..Len(ds.queries) :
        /\ BadPair(ds, n)
        /\ \A m \in 1..(n - 1) : ~BadPair(ds, m)

\* C16: when some query of the training dataset has no relevant_docs
\* entry, an empty one, or a first relevant document that is not a key of
\* the corpus, the pair loop ends with the exception at the first such
\* query: only the pairs of the queries before it are built, and neither
\* the loader nor the training nor the model directory is ever made.  The
\* loop fails with KeyError also where relevant_docs[query_id][0] is
\* there, the lookup on which evaluate goes on.
C16_BadPairAbortsFineTuning ==
    /\ (\E n \in 1..Len(train_dataset.queries) : BadPair(train_dataset, n)) =>
           /\ ft_pc \in {"pairs", "failed"}
           /\ ft_pos < FirstBadPair(train_dataset)
           /\ Len(examples) = ft_pos
           /\ loader = <<>>
           /\ epoch = 0
           /\ ModelDir \notin disk
    /\ ft_pc = "failed" =>
           /\ ft_pos + 1 = FirstBadPair(train_dataset)
           /\ ft_error = PairError(train_dataset, NextItem[1])
           /\ ft_error \in {"KeyError", "IndexError"}
           /\ LookupError(train_dataset, NextItem[1]) = "" =>
                  /\ ft_error = "KeyError"
                  /\ NodeId(train_dataset, NextItem[1]) \notin DOMAIN train_dataset.corpus

\* C16 witness: the second query names a first relevant document that the
\* corpus does not hold, on a corpus that is not empty; the loop failed
\* there with one pair built, where the lookup of evaluate has no error.
C16_Witness ==
    /\ ft_pc = "failed"
    /\ ft_pos = 1
    /\ Len(examples) = 1
    /\ Len(train_dataset.queries) = 2
    /\ DOMAIN train_dataset.corpus # {}
    /\ LookupError(train_dataset, NextItem[1]) = ""
    /\ ft_error = "KeyError"
    /\ loader = <<>>

\* C16 witness: the first query has no relevant_docs entry, and the loop
\* failed before any pair.
C16_WitnessNoEntry ==
    /\ ft_pc = "failed"
    /\ ft_pos = 0
    /\ NextItem[1] \notin DOMAIN train_dataset.relevant_docs
    /\ ft_error = "KeyError"
    /\ examples = <<>>

\* C17: nothing is validated before the loop.  Once evaluate is called the
\* whole corpus is indexed; the retriever has been called for exactly the
\* queries the loop has reached, in iteration order; a lookup failure
\* comes at the first query without ground truth, after the retrieval for
\* every earlier query and for that query itself; and the records computed
\* for the earlier queries are not returned.
C17_FailureOnlyWhenLoopReachesQuery ==
    /\ pc # "idle" => index = dataset.corpus
    /\ pc = "loop" => retrieved_log = SubSeq(dataset.queries, 1, pos)
    /\ pc = "failed" =>
           /\ pos < Len(dataset.queries)
           /\ retrieved_log = SubSeq(dataset.queries, 1, pos + 1)
           /\ \A n \in 1..pos : HasGroundTruth(dataset, dataset.queries[n])
           /\ ~HasGroundTruth(dataset, dataset.queries[pos + 1])
           /\ Len(eval_results) = pos
           /\ \A n \in 1..pos : eval_results[n].query = dataset.queries[n]
           /\ returned = NoResult

\* C17 witness: the second query has no ground truth; the call failed
\* after two retrievals, with one record computed and none returned.
C17_Witness ==
    /\ pc = "failed"
    /\ pos = 1
    /\ Len(retrieved_log) = 2
    /\ Len(eval_results) = 1
    /\ index = dataset.corpus
    /\ index # {}
    /\ returned = NoResult
====
